---- MODULE Spec2Model ----
(***************************************************************************)
(* web-archive: download a page, discover its image / stylesheet / script  *)
(* resources (parsing.rs), fetch them one at a time (lib.rs, blocking.rs)  *)
(* and embed them into a second parse of the page (page_archive.rs).       *)
(*                                                                         *)
(* Strings that the code takes apart (addresses, attribute values) are     *)
(* tuples of tokens; bodies are tuples of bytes; texts are tuples of code  *)
(* points.  Trees are sequences of nodes, a node's id is its index.        *)
(***************************************************************************)
EXTENDS Integers, Sequences, FiniteSets, TLC

VARIABLES
    input,          \* the address handed to archive(): a tuple of tokens
    page,           \* what the server holds at the address: the page text
    transport,      \* the transport's answers so far, by request number
    pc,             \* per entry point: where archive() stands
    url,            \* per entry point: the parsed address
    content,        \* per entry point: the fetched page text
    resource_urls,  \* per entry point: the discovered typed locators
    idx,            \* per entry point: loop position in resource_urls
    response,       \* per entry point: the response being classified
    requests,       \* per entry point: the requests issued, in order
    resource_map,   \* per entry point: the ResourceMap under construction
    result,         \* per entry point: what archive() returned
    archive,        \* the PageArchive embed_resources() runs on
    document,       \* embed_resources(): the kuchiki tree being rewritten
    iter,           \* embed_resources(): the live select() traversal state
    pass,           \* embed_resources(): which loop is running
    trail,          \* embed_resources(): what each loop iteration did
    output          \* embed_resources(): the serialized result

vars == <<input, page, transport, pc, url, content, resource_urls, idx,
          response, requests, resource_map, result, archive, document, iter,
          pass, trail, output>>

fetchVars == <<input, page, transport, pc, url, content, resource_urls, idx,
               response, requests, resource_map, result>>

embedVars == <<archive, document, iter, pass, trail, output>>

(***************************************************************************)
(* Bounds of the model.                                                    *)
(***************************************************************************)
\* elements in a fetched page (Spec)
MaxItems == 2
\* elements in a page handed to the discovery walk (SpecWalk)
MaxWalkItems == 2
\* elements in an archived page handed to embed_resources (SpecEmbed)
MaxEmbedItems == 2
\* elements in an archived page whose loops run in any order (SpecAnyOrder)
MaxOrderItems == 3

RECURSIVE SeqsUpTo(_, _)
SeqsUpTo(S, n) ==
    IF n = 0 THEN {<<>>}
    ELSE LET shorter == SeqsUpTo(S, n - 1)
         IN  shorter \cup {Append(s, x) : s \in shorter, x \in S}

Last(s) == s[Len(s)]

(***************************************************************************)
(* Addresses.  A locator is <<host, segment, ...>>.                        *)
(***************************************************************************)
Hosts == {"example.com", "cdn"}

Fail == [ok |-> FALSE]
Ok(v) == [ok |-> TRUE, val |-> v]

\* an address parse that does not look at the host
UrlParseLenient(s) ==
    IF Len(s) >= 2 /\ s[1] = "http:" THEN Ok(Tail(s)) ELSE Fail

\* Url::parse / TryInto<Url>: an absolute address "http://host/seg/..."
UrlParse(s) ==
    IF Len(s) >= 2 /\ s[1] = "http:" /\ s[2] \in Hosts
    THEN Ok(Tail(s))
    ELSE Fail

\* Url::join: an absolute candidate overrides the base, a rooted one keeps the
\* host, any other replaces the last segment of the base's path.
Join(base, v) ==
    IF v = <<>> THEN Ok(base)
    ELSE IF v[1] = "http:" THEN UrlParse(v)
    ELSE IF v[1] = "/" THEN Ok(<<base[1]>> \o Tail(v))
    ELSE Ok(SubSeq(base, 1, Len(base) - 1) \o v)

(***************************************************************************)
(* Page text and parsing.  A page text is [head, body], each a sequence of *)
(* element sources; parsing builds the tree in document order.             *)
(***************************************************************************)
E(name, attrs, kids) ==
    [kind |-> "Element", name |-> name, attrs |-> attrs, text |-> <<>>,
     kids |-> kids]

T(text) ==
    [kind |-> "Text", name |-> "", attrs |-> <<>>, text |-> text,
     kids |-> <<>>]

NewNode(kind, name, attrs, text) ==
    [kind |-> kind, name |-> name, attrs |-> attrs, text |-> text,
     children |-> <<>>, parent |-> 0]

\* NodeRef::append: the new node becomes the last child of `parent`
AppendChild(tree, parent, node) ==
    Append([tree EXCEPT ![parent].children = Append(@, Len(tree) + 1)],
           [node EXCEPT !.parent = parent])

RECURSIVE AddAll(_, _, _)
AddAll(tree, parent, items) ==
    IF items = <<>> THEN tree
    ELSE LET it == Head(items)
             t1 == AppendChild(tree, parent,
                               NewNode(it.kind, it.name, it.attrs, it.text))
             t2 == AddAll(t1, Len(t1), it.kids)
         IN  AddAll(t2, parent, Tail(items))

Root == 1

\* parse_document / parse_html: #document(doctype, html(head(..), body(..)))
ParseDocument(text) ==
    LET t0 == <<NewNode("Document", "", <<>>, <<>>)>>
        t1 == AppendChild(t0, Root, NewNode("Doctype", "html", <<>>, <<>>))
        t2 == AppendChild(t1, Root, NewNode("Element", "html", <<>>, <<>>))
        html == Len(t2)
        t3 == AppendChild(t2, html, NewNode("Element", "head", <<>>, <<>>))
        t4 == AddAll(t3, Len(t3), text.head)
        t5 == AppendChild(t4, html, NewNode("Element", "body", <<>>, <<>>))
    IN  AddAll(t5, Len(t5), text.body)

(***************************************************************************)
(* parsing.rs: the discovery walk.                                         *)
(***************************************************************************)
Image(u) == [type |-> "Image", url |-> u]
Css(u) == [type |-> "Css", url |-> u]
Javascript(u) == [type |-> "Javascript", url |-> u]

\* the `for attr in attrs` loop of the img and script arms
RECURSIVE SrcLoop(_, _, _)
SrcLoop(url_base, attrs, type) ==
    IF attrs = <<>> THEN <<>>
    ELSE LET attr == Head(attrs)
             u == Join(url_base, attr[2])
             rest == SrcLoop(url_base, Tail(attrs), type)
         IN  IF attr[1] = "src" /\ u.ok
             THEN <<[type |-> type, url |-> u.val]>> \o rest
             ELSE rest

\* the `for attr in attrs` loop of the link arm: [is_stylesheet, url]
RECURSIVE LinkLoop(_, _, _)
LinkLoop(url_base, attrs, st) ==
    IF attrs = <<>> THEN st
    ELSE LET attr == Head(attrs)
             u == Join(url_base, attr[2])
             st1 == IF attr[1] = "href"
                    THEN IF u.ok THEN [st EXCEPT !.url = Ok(u.val)] ELSE st
                    ELSE IF attr[1] = "rel"
                    THEN IF attr[2] = <<"stylesheet">>
                         THEN [st EXCEPT !.is_stylesheet = TRUE]
                         ELSE st
                    ELSE st
         IN  LinkLoop(url_base, Tail(attrs), st1)

\* a link arm that commits to the href whatever the rel says
LinkArmAnyRel(url_base, attrs) ==
    LET st == LinkLoop(url_base, attrs, [is_stylesheet |-> FALSE, url |-> Fail])
    IN  IF st.url.ok THEN <<Css(st.url.val)>> ELSE <<>>

LinkArm(url_base, attrs) ==
    LET st == LinkLoop(url_base, attrs, [is_stylesheet |-> FALSE, url |-> Fail])
    IN  IF st.is_stylesheet /\ st.url.ok THEN <<Css(st.url.val)>> ELSE <<>>

\* the match on the node's own data
OwnUrls(url_base, node) ==
    IF node.kind # "Element" THEN <<>>
    ELSE IF node.name = "img" THEN SrcLoop(url_base, node.attrs, "Image")
    ELSE IF node.name = "script"
    THEN SrcLoop(url_base, node.attrs, "Javascript")
    ELSE IF node.name = "link" THEN LinkArm(url_base, node.attrs)
    ELSE <<>>

\* the children taken last to first
WalkedChildrenReversed(tree, n) ==
    LET kids == SelectSeq(tree[n].children,
                          LAMBDA c : tree[c].kind \in {"Text", "Element"})
    IN  [i \in 1..Len(kids) |-> kids[Len(kids) + 1 - i]]

\* the children the walk descends into, in the order it takes them
WalkedChildren(tree, n) ==
    SelectSeq(tree[n].children,
              LAMBDA c : tree[c].kind \in {"Text", "Element"})

RECURSIVE walk_dom(_, _, _)
RECURSIVE walk_children(_, _, _)
walk_dom(url_base, tree, n) ==
    OwnUrls(url_base, tree[n])
        \o walk_children(url_base, tree, WalkedChildren(tree, n))

walk_children(url_base, tree, kids) ==
    IF kids = <<>> THEN <<>>
    ELSE walk_dom(url_base, tree, Head(kids))
             \o walk_children(url_base, tree, Tail(kids))

parse_resource_urls(url_base, text) ==
    walk_dom(url_base, ParseDocument(text), Root)

(***************************************************************************)
(* The transport.  An answer is a send error, a response whose body cannot *)
(* be read, or a response with a status and a body.  The answers are kept  *)
(* by request number so that both entry points meet the same server.       *)
(***************************************************************************)
StatusOK == 200
OtherStatuses == {204, 404}

Bodies == {<<104>>, <<200, 105>>}

SendError == [error |-> "send", status |-> 0, body |-> <<>>]
BodyError == [error |-> "body", status |-> StatusOK, body |-> <<>>]
Answer(status, body) == [error |-> "none", status |-> status, body |-> body]

PageResponses == {SendError, BodyError, Answer(StatusOK, <<>>)}

Responses ==
    {SendError, BodyError}
        \cup {Answer(st, <<>>) : st \in OtherStatuses}
        \cup {Answer(StatusOK, b) : b \in Bodies}

\* Response::text: lossy decoding, a byte that is no UTF-8 gives U+FFFD
Text(bytes) == [i \in 1..Len(bytes) |-> IF bytes[i] < 128 THEN bytes[i] ELSE 65533]

\* the k-th request of a run gets the k-th answer; a first k-th request draws it
Answers(k, from) ==
    IF k <= Len(transport) THEN {transport[k]} ELSE from

Record(k, r) ==
    IF k <= Len(transport) THEN transport ELSE Append(transport, r)

(***************************************************************************)
(* lib.rs and blocking.rs: archive().                                      *)
(***************************************************************************)
EntryPoints == {"async", "blocking"}

Err(kind) == [ok |-> FALSE, error |-> kind]
Pending == [ok |-> FALSE, error |-> "pending"]
NoResponse == [error |-> "unset", status |-> 0, body |-> <<>>]
NoPage == [head |-> <<>>, body |-> <<>>]
EmptyMap == [u \in {} |-> NoResponse]

\* an insert that keeps the entry a key already has (entry().or_insert)
InsertKeepFirst(map, u, r) == map @@ (u :> r)

\* ResourceMap::insert: a second insert under the same key replaces the first
Insert(map, u, r) == (u :> r) @@ map

\* the match arms: the payload stored for a response of status 200
MakeResource(e, type, body) ==
    IF type = "Image"
    THEN IF e = "async"
         THEN [type |-> "Image", data |-> body, mimetype |-> <<>>]
         ELSE [type |-> "Image", data |-> body]
    ELSE [type |-> type, text |-> Text(body)]

\* Ok(PageArchive { .. })
MakeArchive(e) ==
    IF e = "async"
    THEN [url |-> url[e], content |-> content[e],
          resource_map |-> resource_map[e]]
    ELSE [content |-> content[e], resource_map |-> resource_map[e]]

\* url.try_into().map_err(ParseError)?
ParseAddress(e) ==
    /\ pc[e] = "start"
    /\ LET u == UrlParse(input)
       IN  IF u.ok
           THEN /\ url' = [url EXCEPT ![e] = u.val]
                /\ pc' = [pc EXCEPT ![e] = "page"]
                /\ UNCHANGED result
           ELSE /\ result' = [result EXCEPT ![e] = Err("ParseError")]
                /\ pc' = [pc EXCEPT ![e] = "done"]
                /\ UNCHANGED url
    /\ UNCHANGED <<input, page, transport, content, resource_urls, idx,
                   response, requests, resource_map>>
    /\ UNCHANGED embedVars

\* client.get(url).send()?.text()?, then parse_resource_urls
FetchPage(e) ==
    /\ pc[e] = "page"
    /\ \E r \in Answers(1, PageResponses) :
        /\ transport' = Record(1, r)
        /\ requests' = [requests EXCEPT ![e] = Append(@, url[e])]
        /\ IF r.error = "none"
           THEN /\ content' = [content EXCEPT ![e] = page]
                /\ resource_urls' =
                       [resource_urls EXCEPT
                           ![e] = parse_resource_urls(url[e], page)]
                /\ idx' = [idx EXCEPT ![e] = 1]
                /\ pc' = [pc EXCEPT ![e] = "loop"]
                /\ UNCHANGED result
           ELSE /\ result' = [result EXCEPT ![e] = Err("TransportError")]
                /\ pc' = [pc EXCEPT ![e] = "done"]
                /\ UNCHANGED <<content, resource_urls, idx>>
    /\ UNCHANGED <<input, page, url, response, resource_map>>
    /\ UNCHANGED embedVars

\* the next locator of the for loop
NextUrl(e) == resource_urls[e][idx[e]]

\* client.get(resource_url.url()).send()?
SendRequest(e) ==
    /\ pc[e] = "loop"
    /\ idx[e] <= Len(resource_urls[e])
    /\ \E r \in Answers(Len(requests[e]) + 1, Responses) :
        /\ transport' = Record(Len(requests[e]) + 1, r)
        /\ requests' = [requests EXCEPT ![e] = Append(@, NextUrl(e).url)]
        /\ IF r.error = "send"
           THEN /\ result' = [result EXCEPT ![e] = Err("TransportError")]
                /\ pc' = [pc EXCEPT ![e] = "done"]
                /\ UNCHANGED response
           ELSE /\ response' = [response EXCEPT ![e] = r]
                /\ pc' = [pc EXCEPT ![e] = "classify"]
                /\ UNCHANGED result
    /\ UNCHANGED <<input, page, url, content, resource_urls, idx,
                   resource_map>>
    /\ UNCHANGED embedVars

\* a status check that lets every response through
SkippedNever(r) == FALSE

\* if response.status() != StatusCode::OK { continue; }
Skipped(r) == r.status # StatusOK

\* a body read whose error is swallowed (unwrap_or_default)
ReadBodyLenient(r) == Ok(r.body)

\* response.bytes()? / response.text()?
ReadBody(r) == IF r.error = "body" THEN Fail ELSE Ok(r.body)

\* the rest of the loop body: skip, or read the body and insert
Classify(e) ==
    /\ pc[e] = "classify"
    /\ LET r == response[e]
           ru == NextUrl(e)
       IN  IF Skipped(r)
           THEN /\ idx' = [idx EXCEPT ![e] = @ + 1]
                /\ pc' = [pc EXCEPT ![e] = "loop"]
                /\ UNCHANGED <<resource_map, result>>
           ELSE IF ~ReadBody(r).ok
           THEN /\ result' = [result EXCEPT ![e] = Err("TransportError")]
                /\ pc' = [pc EXCEPT ![e] = "done"]
                /\ UNCHANGED <<resource_map, idx>>
           ELSE /\ resource_map' =
                       [resource_map EXCEPT
                           ![e] = Insert(@, ru.url,
                                         MakeResource(e, ru.type,
                                                      ReadBody(r).val))]
                /\ idx' = [idx EXCEPT ![e] = @ + 1]
                /\ pc' = [pc EXCEPT ![e] = "loop"]
                /\ UNCHANGED result
    /\ response' = [response EXCEPT ![e] = NoResponse]
    /\ UNCHANGED <<input, page, transport, url, content, resource_urls,
                   requests>>
    /\ UNCHANGED embedVars

\* the loop is exhausted: Ok(PageArchive { .. })
Finish(e) ==
    /\ pc[e] = "loop"
    /\ idx[e] > Len(resource_urls[e])
    /\ result' = [result EXCEPT ![e] = [ok |-> TRUE, archive |-> MakeArchive(e)]]
    /\ pc' = [pc EXCEPT ![e] = "done"]
    /\ UNCHANGED <<input, page, transport, url, content, resource_urls, idx,
                   response, requests, resource_map>>
    /\ UNCHANGED embedVars

(***************************************************************************)
(* The pages and addresses the fetch is run on.                            *)
(***************************************************************************)
Attr(name, value) == <<name, value>>

ImgA == E("img", <<Attr("src", <<"a">>)>>, <<>>)
LinkA ==
    E("link", <<Attr("rel", <<"stylesheet">>), Attr("href", <<"/", "dir", "a">>)>>,
      <<>>)
ScriptA == E("script", <<Attr("src", <<"a">>)>>, <<>>)
DivImgB == E("div", <<>>, <<E("img", <<Attr("src", <<"http:", "cdn", "b">>)>>, <<>>)>>)

FetchItems == {ImgA, LinkA, ScriptA, DivImgB}

\* the first element goes to the head, the others to the body
FetchPages ==
    {[head |-> IF s = <<>> THEN <<>> ELSE <<Head(s)>>,
      body |-> IF s = <<>> THEN <<>> ELSE Tail(s)] :
        s \in SeqsUpTo(FetchItems, MaxItems)}

ValidAddress == <<"http:", "example.com", "dir", "page.html">>
Inputs == {ValidAddress, <<"this~is~not~a~url">>, <<"http:", "[">>}

NoArchive == [url |-> <<>>, content |-> NoPage, resource_map |-> EmptyMap]

EmbedIdle ==
    /\ archive = NoArchive
    /\ document = <<>>
    /\ iter = Fail
    /\ pass = "idle"
    /\ trail = <<>>
    /\ output = <<>>

Init ==
    /\ input \in Inputs
    /\ page \in FetchPages
    /\ transport = <<>>
    /\ pc = [e \in EntryPoints |-> "start"]
    /\ url = [e \in EntryPoints |-> <<>>]
    /\ content = [e \in EntryPoints |-> NoPage]
    /\ resource_urls = [e \in EntryPoints |-> <<>>]
    /\ idx = [e \in EntryPoints |-> 1]
    /\ response = [e \in EntryPoints |-> NoResponse]
    /\ requests = [e \in EntryPoints |-> <<>>]
    /\ resource_map = [e \in EntryPoints |-> EmptyMap]
    /\ result = [e \in EntryPoints |-> Pending]
    /\ EmbedIdle

Next ==
    \E e \in EntryPoints :
        \/ ParseAddress(e)
        \/ FetchPage(e)
        \/ SendRequest(e)
        \/ Classify(e)
        \/ Finish(e)

Spec == Init /\ [][Next]_vars

(***************************************************************************)
(* Properties of archive().                                                *)
(***************************************************************************)
\* the requests for resources: all but the request for the page
ResourceRequests(e) ==
    IF requests[e] = <<>> THEN <<>> ELSE Tail(requests[e])

\* the answer the k-th resource request of a run got
AnswerTo(k) == transport[k + 1]

\* the answer is a transport-level failure
Failed(r) == r.error \in {"send", "body"}

\* the run has fetched the page and walked it
Walked(e) ==
    \/ pc[e] \in {"loop", "classify"}
    \/ pc[e] = "done" /\ requests[e] # <<>> /\ ~Failed(transport[1])

\* C1: an address that does not parse makes archive() fail with ParseError,
\* in both entry points, and no request is ever issued for it.
C1_InvalidAddressIsParseError ==
    \A e \in EntryPoints :
        input # ValidAddress =>
            /\ requests[e] = <<>>
            /\ pc[e] \in {"start", "done"}
            /\ pc[e] = "done" => result[e] = Err("ParseError")

C1_Witness ==
    /\ input # ValidAddress
    /\ \A e \in EntryPoints : pc[e] = "done" /\ result[e] = Err("ParseError")

\* the locators the elements of a tree refer to, element after element in
\* the order the elements stand in the page text
RECURSIVE DocumentOrderUrls(_, _, _)
DocumentOrderUrls(url_base, tree, n) ==
    IF n > Len(tree) THEN <<>>
    ELSE OwnUrls(url_base, tree[n]) \o DocumentOrderUrls(url_base, tree, n + 1)

\* C2: the walk emits the locators in document order, the resource requests
\* are the walk's locators in the walk's order, and a request is issued only
\* when every earlier response has been skipped or inserted.
C2_OneAtATimeInDocumentOrder ==
    \A e \in EntryPoints :
        Walked(e) =>
            LET rr == ResourceRequests(e)
            IN  /\ resource_urls[e] =
                       DocumentOrderUrls(url[e], ParseDocument(content[e]), Root)
                /\ Len(rr) <= Len(resource_urls[e])
                /\ rr = [i \in 1..Len(rr) |-> resource_urls[e][i].url]
                /\ pc[e] = "loop" => Len(rr) = idx[e] - 1
                /\ pc[e] = "classify" => Len(rr) = idx[e]
                /\ pc[e] = "done" /\ result[e].ok => Len(rr) = Len(resource_urls[e])

C2_Witness ==
    \E e \in EntryPoints :
        /\ pc[e] = "done"
        /\ result[e].ok
        /\ Len(ResourceRequests(e)) = 2
        /\ ResourceRequests(e)[1] # ResourceRequests(e)[2]

\* the locators among the first n discovered whose fetch returned 200
Fetched200(e, n) ==
    {resource_urls[e][i].url :
        i \in {j \in 1..n : AnswerTo(j).error = "none"
                            /\ AnswerTo(j).status = StatusOK}}

\* C3: a response whose status is not 200 is skipped: at every point the keys
\* of the store are the locators classified so far whose fetch returned 200,
\* and a run without transport failure returns Ok after requesting every
\* discovered locator.
C3_Non200Skipped ==
    \A e \in EntryPoints :
        /\ Walked(e) =>
               DOMAIN resource_map[e] = Fetched200(e, idx[e] - 1)
        /\ (pc[e] = "done"
            /\ requests[e] # <<>>
            /\ \A k \in 1..Len(requests[e]) : ~Failed(transport[k])) =>
               /\ result[e].ok
               /\ Len(ResourceRequests(e)) = Len(resource_urls[e])
               /\ DOMAIN result[e].archive.resource_map =
                      Fetched200(e, Len(resource_urls[e]))

C3_Witness ==
    \E e \in EntryPoints :
        /\ pc[e] = "done"
        /\ result[e].ok
        /\ Len(resource_urls[e]) = 2
        /\ AnswerTo(1).status \in OtherStatuses
        /\ AnswerTo(2).status = StatusOK
        /\ DOMAIN result[e].archive.resource_map = {resource_urls[e][2].url}

\* C4: a send error or a body read error on a resource request ends the run
\* with an error: no archive is returned, whatever was stored before, and
\* the failing request is the last one issued.
C4_TransportFailureAborts ==
    \A e \in EntryPoints :
        \A k \in 1..Len(ResourceRequests(e)) :
            Failed(AnswerTo(k)) =>
                /\ k = Len(ResourceRequests(e))
                /\ pc[e] \in {"classify", "done"}
                /\ pc[e] = "done" => result[e] = Err("TransportError")

C4_Witness ==
    \E e \in EntryPoints :
        /\ pc[e] = "done"
        /\ Len(ResourceRequests(e)) = 2
        /\ AnswerTo(2) = BodyError
        /\ DOMAIN resource_map[e] # {}
        /\ result[e] = Err("TransportError")

\* C8: both entry points, given the same address and the same answers, issue
\* the same requests, end alike, and return archives with the same page
\* text and the same store: the same keys with the same typed payloads.
C8_EntryPointsAgree ==
    (\A e \in EntryPoints : pc[e] = "done") =>
        /\ requests["async"] = requests["blocking"]
        /\ result["async"].ok = result["blocking"].ok
        /\ result["async"].ok =>
               /\ result["async"].archive.content
                      = result["blocking"].archive.content
               /\ result["async"].archive.resource_map
                      = result["blocking"].archive.resource_map

(***************************************************************************)
(* The discovery walk on its own: parse_resource_urls applied to pages     *)
(* with every attribute combination the arms of walk_dom tell apart.       *)
(***************************************************************************)
BadValue == <<"http:", "[">>

ImgAlt == E("img", <<Attr("alt", <<"a">>)>>, <<>>)
ImgBad == E("img", <<Attr("alt", <<"a">>), Attr("src", BadValue)>>, <<>>)
ScriptInline == E("script", <<>>, <<T(<<118>>)>>)
ScriptBad == E("script", <<Attr("src", BadValue)>>, <<>>)
LinkHrefFirst ==
    E("link", <<Attr("href", <<"a">>), Attr("rel", <<"stylesheet">>)>>, <<>>)
LinkIcon == E("link", <<Attr("rel", <<"icon">>), Attr("href", <<"a">>)>>, <<>>)
LinkAlternate ==
    E("link", <<Attr("rel", <<"alternate", "stylesheet">>), Attr("href", <<"a">>)>>,
      <<>>)
LinkNoHref == E("link", <<Attr("rel", <<"stylesheet">>)>>, <<>>)
LinkNoRel == E("link", <<Attr("href", <<"a">>)>>, <<>>)
LinkBad == E("link", <<Attr("rel", <<"stylesheet">>), Attr("href", BadValue)>>, <<>>)
Anchor == E("a", <<Attr("href", <<"a">>), Attr("src", <<"a">>)>>, <<T(<<118>>)>>)
Comment ==
    [kind |-> "Comment", name |-> "", attrs |-> <<>>, text |-> <<118>>,
     kids |-> <<>>]

WalkItems ==
    {ImgA, ImgAlt, ImgBad, ScriptA, ScriptInline, ScriptBad, LinkA,
     LinkHrefFirst, LinkIcon, LinkAlternate, LinkNoHref, LinkNoRel, LinkBad,
     Anchor, Comment, DivImgB}

WalkPages ==
    {[head |-> IF s = <<>> THEN <<>> ELSE <<Head(s)>>,
      body |-> IF s = <<>> THEN <<>> ELSE Tail(s)] :
        s \in SeqsUpTo(WalkItems, MaxWalkItems)}

InitWalk ==
    /\ input = ValidAddress
    /\ page \in WalkPages
    /\ transport = <<>>
    /\ pc = [e \in EntryPoints |-> "walk"]
    /\ url = [e \in EntryPoints |-> UrlParse(input).val]
    /\ content = [e \in EntryPoints |-> page]
    /\ resource_urls = [e \in EntryPoints |-> <<>>]
    /\ idx = [e \in EntryPoints |-> 1]
    /\ response = [e \in EntryPoints |-> NoResponse]
    /\ requests = [e \in EntryPoints |-> <<>>]
    /\ resource_map = [e \in EntryPoints |-> EmptyMap]
    /\ result = [e \in EntryPoints |-> Pending]
    /\ EmbedIdle

\* let resource_urls = parse_resource_urls(&url, &content)
Walk(e) ==
    /\ pc[e] = "walk"
    /\ resource_urls' =
           [resource_urls EXCEPT ![e] = parse_resource_urls(url[e], content[e])]
    /\ pc' = [pc EXCEPT ![e] = "walked"]
    /\ UNCHANGED <<input, page, transport, url, content, idx, response,
                   requests, resource_map, result>>
    /\ UNCHANGED embedVars

NextWalk == \E e \in EntryPoints : Walk(e)

SpecWalk == InitWalk /\ [][NextWalk]_vars

HasAttr(attrs, name) == \E i \in 1..Len(attrs) : attrs[i][1] = name

AttrValue(attrs, name) ==
    attrs[CHOOSE i \in 1..Len(attrs) : attrs[i][1] = name][2]

\* what an element is to emit: by tag, by the attribute it must carry and by
\* whether the attribute's value resolves
Emits(url_base, node) ==
    IF node.kind = "Element" /\ node.name \in {"img", "script"}
       /\ HasAttr(node.attrs, "src")
       /\ Join(url_base, AttrValue(node.attrs, "src")).ok
    THEN <<[type |-> IF node.name = "img" THEN "Image" ELSE "Javascript",
            url |-> Join(url_base, AttrValue(node.attrs, "src")).val]>>
    ELSE IF node.kind = "Element" /\ node.name = "link"
            /\ HasAttr(node.attrs, "rel")
            /\ AttrValue(node.attrs, "rel") = <<"stylesheet">>
            /\ HasAttr(node.attrs, "href")
            /\ Join(url_base, AttrValue(node.attrs, "href")).ok
    THEN <<Css(Join(url_base, AttrValue(node.attrs, "href")).val)>>
    ELSE <<>>

RECURSIVE EmitsFrom(_, _, _)
EmitsFrom(url_base, tree, n) ==
    IF n > Len(tree) THEN <<>>
    ELSE Emits(url_base, tree[n]) \o EmitsFrom(url_base, tree, n + 1)

\* C9: the walk emits Image for an img src that resolves, Javascript for a
\* script src that resolves, Css for a link whose rel is exactly "stylesheet"
\* and whose href resolves, and nothing else; a value that does not resolve
\* drops that element only.
C9_WalkEmitsExactly ==
    \A e \in EntryPoints :
        pc[e] = "walked" =>
            resource_urls[e] = EmitsFrom(url[e], ParseDocument(content[e]), Root)

C9_Witness ==
    \E e \in EntryPoints :
        /\ pc[e] = "walked"
        /\ page.head = <<ImgBad>>
        /\ page.body = <<LinkHrefFirst>>
        /\ resource_urls[e] = <<Css(<<"example.com", "dir", "a">>)>>

(***************************************************************************)
(* page_archive.rs: embed_resources().  The three loops run over the live  *)
(* traversal that document.select(..) returns: the traversal keeps the     *)
(* edge it will hand out next, computed from the tree as it stood when the *)
(* previous edge was handed out.                                           *)
(***************************************************************************)
Start(n) == [edge |-> "Start", node |-> n]
End(n) == [edge |-> "End", node |-> n]

FirstChild(tree, n) ==
    IF tree[n].children = <<>> THEN 0 ELSE Head(tree[n].children)

IndexIn(seq, x) == CHOOSE i \in 1..Len(seq) : seq[i] = x

NextSibling(tree, n) ==
    LET p == tree[n].parent
    IN  IF p = 0 THEN 0
        ELSE LET sibs == tree[p].children
                 i == IndexIn(sibs, n)
             IN  IF i = Len(sibs) THEN 0 ELSE sibs[i + 1]

\* NodeRef::detach: the node leaves its parent's children and has no parent
Detach(tree, n) ==
    LET p == tree[n].parent
    IN  IF p = 0 THEN tree
        ELSE [tree EXCEPT ![p].children = SelectSeq(@, LAMBDA c : c # n),
                          ![n].parent = 0]

\* the edge after `edge` in the tree as it stands
Successor(tree, edge) ==
    IF edge.edge = "Start"
    THEN IF FirstChild(tree, edge.node) # 0
         THEN Ok(Start(FirstChild(tree, edge.node)))
         ELSE Ok(End(edge.node))
    ELSE IF NextSibling(tree, edge.node) # 0
         THEN Ok(Start(NextSibling(tree, edge.node)))
         ELSE IF tree[edge.node].parent # 0
              THEN Ok(End(tree[edge.node].parent))
              ELSE Fail

\* Traverse::next: hand out the kept edge and keep its successor
TraverseNext(tree, st) ==
    IF ~st.ok THEN [item |-> Fail, state |-> Fail]
    ELSE [item |-> st,
          state |-> IF st.val = End(Root) THEN Fail
                    ELSE Successor(tree, st.val)]

\* a select whose img selector also matches any element that carries a src
RECURSIVE SelectNextBySrc(_, _, _)
SelectNextBySrc(tree, st, name) ==
    LET r == TraverseNext(tree, st)
    IN  IF ~r.item.ok THEN [found |-> FALSE, node |-> 0, state |-> Fail]
        ELSE IF /\ r.item.val.edge = "Start"
                /\ tree[r.item.val.node].kind = "Element"
                /\ \/ tree[r.item.val.node].name = name
                   \/ /\ name = "img"
                      /\ \E i \in 1..Len(tree[r.item.val.node].attrs) :
                             tree[r.item.val.node].attrs[i][1] = "src"
             THEN [found |-> TRUE, node |-> r.item.val.node, state |-> r.state]
             ELSE SelectNextBySrc(tree, r.state, name)

\* Select::next: the next start edge of an element with the given tag
RECURSIVE SelectNext(_, _, _)
SelectNext(tree, st, name) ==
    LET r == TraverseNext(tree, st)
    IN  IF ~r.item.ok THEN [found |-> FALSE, node |-> 0, state |-> Fail]
        ELSE IF /\ r.item.val.edge = "Start"
                /\ tree[r.item.val.node].kind = "Element"
                /\ tree[r.item.val.node].name = name
             THEN [found |-> TRUE, node |-> r.item.val.node, state |-> r.state]
             ELSE SelectNext(tree, r.state, name)

\* Attributes::get
GetAttr(attrs, name) ==
    IF HasAttr(attrs, name) THEN Ok(AttrValue(attrs, name)) ELSE Fail

\* *u = value, through Attributes::get_mut
SetAttr(attrs, name, value) ==
    [i \in 1..Len(attrs) |->
        IF attrs[i][1] = name THEN Attr(name, value) ELSE attrs[i]]

\* Attributes::remove
RemoveAttr(attrs, name) == SelectSeq(attrs, LAMBDA a : a[1] # name)

Alphabet64 ==
    <<"A", "B", "C", "D", "E", "F", "G", "H", "I", "J", "K", "L", "M", "N",
      "O", "P", "Q", "R", "S", "T", "U", "V", "W", "X", "Y", "Z", "a", "b",
      "c", "d", "e", "f", "g", "h", "i", "j", "k", "l", "m", "n", "o", "p",
      "q", "r", "s", "t", "u", "v", "w", "x", "y", "z", "0", "1", "2", "3",
      "4", "5", "6", "7", "8", "9", "+", "/">>

Sextet(v) == Alphabet64[v + 1]

RECURSIVE Base64(_)
Base64(bytes) ==
    IF bytes = <<>> THEN <<>>
    ELSE IF Len(bytes) = 1
    THEN <<Sextet(bytes[1] \div 4), Sextet((bytes[1] % 4) * 16), "=", "=">>
    ELSE IF Len(bytes) = 2
    THEN <<Sextet(bytes[1] \div 4),
           Sextet((bytes[1] % 4) * 16 + bytes[2] \div 16),
           Sextet((bytes[2] % 16) * 4), "=">>
    ELSE <<Sextet(bytes[1] \div 4),
           Sextet((bytes[1] % 4) * 16 + bytes[2] \div 16),
           Sextet((bytes[2] % 16) * 4 + bytes[3] \div 64),
           Sextet(bytes[3] % 64)>> \o Base64(SubSeq(bytes, 4, Len(bytes)))

\* ImageResource::to_data_uri: "data:<mimetype>;base64,<bytes in base64>"
to_data_uri(image) ==
    <<"data:">>
        \o (IF image.mimetype = <<>> THEN <<"application/octet-stream">>
            ELSE image.mimetype)
        \o <<";base64,">> \o Base64(image.data)

\* resource_map.get(&url) matched against one variant of Resource
StoredAs(ar, u, type) ==
    IF u \in DOMAIN ar.resource_map /\ ar.resource_map[u].type = type
    THEN Ok(ar.resource_map[u])
    ELSE Fail

\* a lookup of the attribute value as it stands, not joined to the base
StoredImageNoBase(ar, value) ==
    IF UrlParse(value).ok THEN StoredAs(ar, UrlParse(value).val, "Image") ELSE Fail

\* self.url.join(u), then the lookup of an Image
StoredImage(ar, value) ==
    IF Join(ar.url, value).ok
    THEN StoredAs(ar, Join(ar.url, value).val, "Image")
    ELSE Fail

\* the body of the img loop: the node's attributes afterwards
ImageBody(ar, node) ==
    IF node.kind = "Element" /\ GetAttr(node.attrs, "src").ok
       /\ StoredImage(ar, GetAttr(node.attrs, "src").val).ok
    THEN SetAttr(node.attrs, "src",
                 to_data_uri(StoredImage(ar, GetAttr(node.attrs, "src").val).val))
    ELSE node.attrs

\* the first half of the link loop's body: css_data
CssData(ar, node) ==
    IF /\ node.kind = "Element"
       /\ GetAttr(node.attrs, "rel") = Ok(<<"stylesheet">>)
       /\ GetAttr(node.attrs, "href").ok
       /\ Join(ar.url, GetAttr(node.attrs, "href").val).ok
    THEN LET got == StoredAs(ar, Join(ar.url, GetAttr(node.attrs, "href").val).val,
                             "Css")
         IN  IF got.ok THEN Ok(got.val.text) ELSE Fail
    ELSE Fail

\* a replacement that appends the style element and forgets the detach
ReplaceLinkKeepLink(tree, n, css) ==
    IF tree[n].parent = 0 THEN tree
    ELSE LET t1 == AppendChild(tree, tree[n].parent,
                               NewNode("Element", "style", <<>>, <<>>))
         IN  AppendChild(t1, Len(t1), NewNode("Text", "", <<>>, css))

\* the second half: a new style element holding the css becomes the last
\* child of the link's parent, and the link is detached
ReplaceLink(tree, n, css) ==
    IF tree[n].parent = 0 THEN tree
    ELSE LET t1 == AppendChild(tree, tree[n].parent,
                               NewNode("Element", "style", <<>>, <<>>))
             t2 == AppendChild(t1, Len(t1), NewNode("Text", "", <<>>, css))
         IN  Detach(t2, n)

\* the script text to append, if any
ScriptText(ar, node) ==
    IF GetAttr(node.attrs, "src").ok
       /\ Join(ar.url, GetAttr(node.attrs, "src").val).ok
    THEN LET got == StoredAs(ar, Join(ar.url, GetAttr(node.attrs, "src").val).val,
                             "Javascript")
         IN  IF got.ok THEN Ok(got.val.text) ELSE Fail
    ELSE Fail

\* a removal of src that happens only when the script was embedded
ScriptAttrsKeptOnMiss(ar, node) ==
    IF ScriptText(ar, node).ok THEN RemoveAttr(node.attrs, "src") ELSE node.attrs

\* let _ = attr.remove("src")
ScriptAttrs(ar, node) == RemoveAttr(node.attrs, "src")

\* the body of the script loop
ScriptBody(ar, tree, n) ==
    LET txt == ScriptText(ar, tree[n])
        t1 == IF txt.ok
              THEN AppendChild(tree, n, NewNode("Text", "", <<>>, txt.val))
              ELSE tree
    IN  [t1 EXCEPT ![n].attrs = ScriptAttrs(ar, tree[n])]

\* document.to_string(): the tree below the root, as nested records
RECURSIVE Serialize(_, _)
RECURSIVE SerializeAll(_, _)
Serialize(tree, n) ==
    [kind |-> tree[n].kind, name |-> tree[n].name, attrs |-> tree[n].attrs,
     text |-> tree[n].text, children |-> SerializeAll(tree, tree[n].children)]

SerializeAll(tree, kids) ==
    IF kids = <<>> THEN <<>>
    ELSE <<Serialize(tree, Head(kids))>> \o SerializeAll(tree, Tail(kids))

\* let document = parse_html().one(self.content.as_str())
EmbedStart ==
    /\ pass = "start"
    /\ document' = ParseDocument(archive.content)
    /\ iter' = Ok(Start(Root))
    /\ pass' = "img"
    /\ UNCHANGED <<archive, trail, output>>
    /\ UNCHANGED fetchVars

\* one iteration of `for element in document.select("img")`
ReplaceImage ==
    /\ pass = "img"
    /\ LET sel == SelectNext(document, iter, "img")
       IN  /\ sel.found
           /\ document' =
                  [document EXCEPT
                      ![sel.node].attrs = ImageBody(archive, document[sel.node])]
           /\ iter' = sel.state
           /\ trail' = Append(trail, <<"img", sel.node>>)
    /\ UNCHANGED <<archive, pass, output>>
    /\ UNCHANGED fetchVars

\* the img loop ends; document.select("link") starts
ImagesDone ==
    /\ pass = "img"
    /\ ~SelectNext(document, iter, "img").found
    /\ iter' = Ok(Start(Root))
    /\ pass' = "link"
    /\ UNCHANGED <<archive, document, trail, output>>
    /\ UNCHANGED fetchVars

\* one iteration of `for element in document.select("link")`
ReplaceCss ==
    /\ pass = "link"
    /\ LET sel == SelectNext(document, iter, "link")
           css == CssData(archive, document[sel.node])
       IN  /\ sel.found
           /\ document' = IF css.ok THEN ReplaceLink(document, sel.node, css.val)
                          ELSE document
           /\ iter' = sel.state
           /\ trail' = Append(trail, <<"link", sel.node>>)
    /\ UNCHANGED <<archive, pass, output>>
    /\ UNCHANGED fetchVars

\* the link loop ends; document.select("script") starts
CssDone ==
    /\ pass = "link"
    /\ ~SelectNext(document, iter, "link").found
    /\ iter' = Ok(Start(Root))
    /\ pass' = "script"
    /\ UNCHANGED <<archive, document, trail, output>>
    /\ UNCHANGED fetchVars

\* one iteration of `for element in document.select("script")`
ReplaceScript ==
    /\ pass = "script"
    /\ LET sel == SelectNext(document, iter, "script")
       IN  /\ sel.found
           /\ document' = ScriptBody(archive, document, sel.node)
           /\ iter' = sel.state
           /\ trail' = Append(trail, <<"script", sel.node>>)
    /\ UNCHANGED <<archive, pass, output>>
    /\ UNCHANGED fetchVars

\* the script loop ends: Ok(document.to_string())
ScriptsDone ==
    /\ pass = "script"
    /\ ~SelectNext(document, iter, "script").found
    /\ output' = Serialize(document, Root)
    /\ iter' = Fail
    /\ pass' = "done"
    /\ UNCHANGED <<archive, document, trail>>
    /\ UNCHANGED fetchVars

(***************************************************************************)
(* The archives embed_resources is run on.                                 *)
(***************************************************************************)
LocA == <<"example.com", "dir", "a">>
LocB == <<"cdn", "b">>

LinkB ==
    E("link", <<Attr("href", <<"http:", "cdn", "b">>), Attr("rel", <<"stylesheet">>)>>,
      <<>>)
ScriptBInline ==
    E("script", <<Attr("src", <<"http:", "cdn", "b">>), Attr("defer", <<>>)>>,
      <<T(<<118>>)>>)
Para == E("p", <<>>, <<T(<<118>>)>>)

EmbedItems ==
    {ImgA, ImgAlt, ImgBad, LinkA, LinkB, LinkIcon, ScriptA, ScriptBInline,
     ScriptBad, Para}

\* the elements stand in the head, in the body, or the first in the head
\* and the others in the body
EmbedPages ==
    LET seqs == SeqsUpTo(EmbedItems, MaxEmbedItems)
    IN  {[head |-> s, body |-> <<>>] : s \in seqs}
            \cup {[head |-> <<>>, body |-> s] : s \in seqs}
            \cup {[head |-> <<Head(s)>>, body |-> Tail(s)] : s \in seqs \ {<<>>}}

StoredResources ==
    {[type |-> "Image", data |-> <<104, 105>>, mimetype |-> <<>>],
     [type |-> "Image", data |-> <<255>>, mimetype |-> <<"image/png">>],
     [type |-> "Css", text |-> <<99>>],
     [type |-> "Javascript", text |-> <<106>>]}

Stores ==
    {EmptyMap}
        \cup {(LocA :> r) : r \in StoredResources}
        \cup {(LocB :> r) : r \in StoredResources}
        \cup {(LocA :> r) @@ (LocB :> q) :
                 r \in StoredResources,
                 q \in {x \in StoredResources : x.type # "Image"}}

InitEmbed ==
    /\ input = ValidAddress
    /\ page \in EmbedPages
    /\ transport = <<>>
    /\ pc = [e \in EntryPoints |-> "done"]
    /\ url = [e \in EntryPoints |-> UrlParse(input).val]
    /\ content = [e \in EntryPoints |-> page]
    /\ resource_urls = [e \in EntryPoints |-> <<>>]
    /\ idx = [e \in EntryPoints |-> 1]
    /\ response = [e \in EntryPoints |-> NoResponse]
    /\ requests = [e \in EntryPoints |-> <<>>]
    /\ resource_map = [e \in EntryPoints |-> EmptyMap]
    /\ result = [e \in EntryPoints |-> Pending]
    /\ archive \in {[url |-> UrlParse(input).val, content |-> page,
                     resource_map |-> m] : m \in Stores}
    /\ document = <<>>
    /\ iter = Fail
    /\ pass = "start"
    /\ trail = <<>>
    /\ output = <<>>

NextEmbed ==
    \/ EmbedStart
    \/ ReplaceImage
    \/ ImagesDone
    \/ ReplaceCss
    \/ CssDone
    \/ ReplaceScript
    \/ ScriptsDone

SpecEmbed == InitEmbed /\ [][NextEmbed]_vars

(***************************************************************************)
(* Properties of embed_resources().                                        *)
(***************************************************************************)
\* the page as parsed, before any loop has run: the loops keep node ids
Original == ParseDocument(archive.content)

\* the elements of a serialized tree, in document order
RECURSIVE OutElements(_)
RECURSIVE OutElementsAll(_)
OutElements(node) ==
    (IF node.kind = "Element" THEN <<node>> ELSE <<>>)
        \o OutElementsAll(node.children)

OutElementsAll(nodes) ==
    IF nodes = <<>> THEN <<>>
    ELSE OutElements(Head(nodes)) \o OutElementsAll(Tail(nodes))

OutNamed(name) ==
    SelectSeq(OutElements(output), LAMBDA el : el.name = name)

IsElement(node, name) == node.kind = "Element" /\ node.name = name

\* attribute `name` of the node resolves against the archive's base to a
\* locator stored as `type`
RefersToStored(node, name, type) ==
    /\ HasAttr(node.attrs, name)
    /\ Join(archive.url, AttrValue(node.attrs, name)).ok
    /\ Join(archive.url, AttrValue(node.attrs, name)).val
           \in DOMAIN archive.resource_map
    /\ archive.resource_map[Join(archive.url, AttrValue(node.attrs, name)).val].type
           = type

StoredFor(node, name) ==
    archive.resource_map[Join(archive.url, AttrValue(node.attrs, name)).val]

\* C5: in the output no script element carries a src; a script that had a
\* src gets the stored script text as a new last text child exactly when
\* its src resolves to a stored Javascript entry, and otherwise keeps its
\* children as they were.
C5_ScriptsLoseSrc ==
    pass = "done" =>
        /\ \A i \in 1..Len(OutNamed("script")) :
               ~HasAttr(OutNamed("script")[i].attrs, "src")
        /\ \A n \in 1..Len(Original) :
               IsElement(Original[n], "script") /\ HasAttr(Original[n].attrs, "src") =>
                   /\ \A c \in 1..Len(Original[n].children) :
                          document[Original[n].children[c]]
                              = Original[Original[n].children[c]]
                   /\ IF RefersToStored(Original[n], "src", "Javascript")
                      THEN /\ Len(document[n].children)
                                  = Len(Original[n].children) + 1
                           /\ SubSeq(document[n].children, 1,
                                     Len(Original[n].children))
                                  = Original[n].children
                           /\ document[Last(document[n].children)].kind = "Text"
                           /\ document[Last(document[n].children)].text
                                  = StoredFor(Original[n], "src").text
                      ELSE document[n].children = Original[n].children

C5_Witness ==
    /\ pass = "done"
    /\ archive.content.head = <<ScriptA, ScriptBInline>>
    /\ LocA \notin DOMAIN archive.resource_map
    /\ LocB \in DOMAIN archive.resource_map
    /\ archive.resource_map[LocB].type = "Javascript"

\* the image loop has run
ImagesEmbedded == pass \in {"link", "script", "done"}

\* C6: the image loop replaces an img's src by the data URI of the stored
\* bytes exactly when the src resolves to a stored Image entry; every other
\* img, and every other node, is as it was parsed.
C6_ImagePass ==
    /\ ImagesEmbedded =>
           \A n \in 1..Len(Original) :
               IsElement(Original[n], "img") =>
                   document[n] =
                       IF RefersToStored(Original[n], "src", "Image")
                       THEN [Original[n] EXCEPT
                                !.attrs = SetAttr(@, "src",
                                    to_data_uri(StoredFor(Original[n], "src")))]
                       ELSE Original[n]
    /\ pass = "link" /\ iter = Ok(Start(Root)) =>
           /\ Len(document) = Len(Original)
           /\ \A n \in 1..Len(Original) :
                  ~IsElement(Original[n], "img") => document[n] = Original[n]

C6_Witness ==
    /\ pass = "link"
    /\ archive.content.body = <<ImgA, ImgBad>>
    /\ LocA \in DOMAIN archive.resource_map
    /\ archive.resource_map[LocA].type = "Image"
    /\ \E n \in 1..Len(document) :
           /\ IsElement(document[n], "img")
           /\ AttrValue(document[n].attrs, "src")[1] = "data:"

\* the link elements of the page as parsed
Links == {n \in 1..Len(Original) : IsElement(Original[n], "link")}

\* the page has one link element, a stylesheet link whose css is stored
OneStoredLink ==
    /\ Cardinality(Links) = 1
    /\ \A n \in Links :
           /\ HasAttr(Original[n].attrs, "rel")
           /\ AttrValue(Original[n].attrs, "rel") = <<"stylesheet">>
           /\ RefersToStored(Original[n], "href", "Css")

TheLink == CHOOSE n \in Links : TRUE

\* the output has no link and one style, which holds the stored css
LinkBecameStyle ==
    /\ OutNamed("link") = <<>>
    /\ Len(OutNamed("style")) = 1
    /\ Len(OutNamed("style")[1].children) = 1
    /\ OutNamed("style")[1].children[1].kind = "Text"
    /\ OutNamed("style")[1].children[1].text
           = StoredFor(Original[TheLink], "href").text

\* the style element among the children of the link's former parent
StyleIn(p) ==
    SelectSeq(document[p].children, LAMBDA c : IsElement(document[c], "style"))

\* C7 as stated: for a page with one stylesheet link whose css is stored,
\* the output has no link and one style element holding the css, and the
\* style stands where the link stood among the children of its parent.
C7_StyleTakesLinksPlace ==
    pass = "done" /\ OneStoredLink =>
        /\ LinkBecameStyle
        /\ Len(StyleIn(Original[TheLink].parent)) = 1
        /\ IndexIn(document[Original[TheLink].parent].children,
                   StyleIn(Original[TheLink].parent)[1])
               = IndexIn(Original[Original[TheLink].parent].children, TheLink)

\* C7 amended: for a page with one stylesheet link whose css is stored, the
\* output has no link and one style element holding the css, and the style
\* is the last child of the link's former parent, after the link's former
\* siblings in their order.
C7_StyleAppendedToParent ==
    pass = "done" /\ OneStoredLink =>
        /\ LinkBecameStyle
        /\ Len(StyleIn(Original[TheLink].parent)) = 1
        /\ document[Original[TheLink].parent].children
               = SelectSeq(Original[Original[TheLink].parent].children,
                           LAMBDA c : c # TheLink)
                     \o StyleIn(Original[TheLink].parent)

C7_Witness ==
    /\ pass = "done"
    /\ OneStoredLink
    /\ archive.content.head = <<LinkA, Para>>

\* C10: the stylesheet loop reaches every link: in the output no link is
\* left whose href resolves to a stored Css entry, and each such link has
\* been detached.
C10_EveryStoredLinkReplaced ==
    pass = "done" =>
        /\ \A n \in Links :
               (/\ HasAttr(Original[n].attrs, "rel")
                /\ AttrValue(Original[n].attrs, "rel") = <<"stylesheet">>
                /\ RefersToStored(Original[n], "href", "Css"))
                   => document[n].parent = 0
        /\ \A i \in 1..Len(OutNamed("link")) :
               ~(/\ HasAttr(OutNamed("link")[i].attrs, "rel")
                 /\ AttrValue(OutNamed("link")[i].attrs, "rel") = <<"stylesheet">>
                 /\ RefersToStored(OutNamed("link")[i], "href", "Css"))

(***************************************************************************)
(* Locators discovered more than once.                                     *)
(***************************************************************************)
\* the fetches classified so far that asked for u and were answered 200
Hits(e, u) ==
    {j \in 1..(idx[e] - 1) :
        /\ resource_urls[e][j].url = u
        /\ AnswerTo(j).error = "none"
        /\ AnswerTo(j).status = StatusOK}

LastHit(e, u) == CHOOSE j \in Hits(e, u) : \A k \in Hits(e, u) : k <= j

\* the entry has the kind of the typed locator and the body as that kind
\* reads it
HoldsFetch(entry, typed, body) ==
    /\ entry.type = typed.type
    /\ IF typed.type = "Image" THEN entry.data = body
       ELSE entry.text = Text(body)

\* C11: the store has one entry per locator, and it is the one of the last
\* fetch of that locator that returned 200: a later fetch with status 200
\* replaces it, whatever its tag, and a later skipped fetch leaves it.
C11_LastSuccessfulFetchWins ==
    \A e \in EntryPoints :
        Walked(e) =>
            \A u \in DOMAIN resource_map[e] :
                /\ Hits(e, u) # {}
                /\ HoldsFetch(resource_map[e][u],
                              resource_urls[e][LastHit(e, u)],
                              AnswerTo(LastHit(e, u)).body)

C11_Witness ==
    \E e \in EntryPoints :
        /\ pc[e] = "done"
        /\ result[e].ok
        /\ Len(resource_urls[e]) = 2
        /\ resource_urls[e][1].url = resource_urls[e][2].url
        /\ resource_urls[e][1].type = "Image"
        /\ resource_urls[e][2].type = "Css"
        /\ AnswerTo(1).status = StatusOK
        /\ AnswerTo(2).status = StatusOK
        /\ AnswerTo(1).body # AnswerTo(2).body
        /\ DOMAIN result[e].archive.resource_map = {resource_urls[e][1].url}
        /\ result[e].archive.resource_map[resource_urls[e][1].url].type = "Css"

\* a later skipped fetch has left the earlier entry in place
C11_WitnessSkipped ==
    \E e \in EntryPoints :
        /\ pc[e] = "done"
        /\ result[e].ok
        /\ Len(resource_urls[e]) = 2
        /\ resource_urls[e][1].url = resource_urls[e][2].url
        /\ AnswerTo(1).status = StatusOK
        /\ AnswerTo(2).status \in OtherStatuses
        /\ resource_map[e][resource_urls[e][1].url].type
               = resource_urls[e][1].type

(***************************************************************************)
(* The three loops of embed_resources() run in any order: the loop bodies  *)
(* are those of the code, the order of the loops is drawn.                 *)
(***************************************************************************)
Passes == {"img", "link", "script"}

LocC == <<"example.com", "c">>

ScriptCInline ==
    E("script", <<Attr("src", <<"/", "c">>)>>, <<T(<<118>>)>>)

OrderItems == {ImgA, LinkB, ScriptCInline, Para}

OrderPages ==
    LET seqs == SeqsUpTo(OrderItems, MaxOrderItems)
    IN  {[head |-> s, body |-> <<>>] : s \in seqs}
            \cup {[head |-> <<Head(s)>>, body |-> Tail(s)] : s \in seqs \ {<<>>}}

OrderStores ==
    LET img == (LocA :> [type |-> "Image", data |-> <<104, 105>>,
                         mimetype |-> <<>>])
        css == (LocB :> [type |-> "Css", text |-> <<99>>])
        js == (LocC :> [type |-> "Javascript", text |-> <<106>>])
    IN  {EmptyMap, css, img @@ js, img @@ css @@ js}

InitAnyOrder ==
    /\ input = ValidAddress
    /\ page \in OrderPages
    /\ transport = <<>>
    /\ pc = [e \in EntryPoints |-> "done"]
    /\ url = [e \in EntryPoints |-> UrlParse(input).val]
    /\ content = [e \in EntryPoints |-> page]
    /\ resource_urls = [e \in EntryPoints |-> <<>>]
    /\ idx = [e \in EntryPoints |-> 1]
    /\ response = [e \in EntryPoints |-> NoResponse]
    /\ requests = [e \in EntryPoints |-> <<>>]
    /\ resource_map = [e \in EntryPoints |-> EmptyMap]
    /\ result = [e \in EntryPoints |-> Pending]
    /\ archive \in {[url |-> UrlParse(input).val, content |-> page,
                     resource_map |-> m] : m \in OrderStores}
    /\ document = <<>>
    /\ iter = Fail
    /\ pass = "start"
    /\ trail = <<>>
    /\ output = <<>>

\* the loops that have run to their end: each leaves <<loop, 0>> in the trail
Ended == {trail[i][1] : i \in {j \in 1..Len(trail) : trail[j][2] = 0}}

\* parse_html, then one of the loops starts
EmbedStartAny ==
    /\ pass = "start"
    /\ document' = ParseDocument(archive.content)
    /\ iter' = Ok(Start(Root))
    /\ pass' \in Passes
    /\ UNCHANGED <<archive, trail, output>>
    /\ UNCHANGED fetchVars

\* a loop ends: another one that has not run starts, or the tree is
\* serialized
PassEnd ==
    /\ pass \in Passes
    /\ ~SelectNext(document, iter, pass).found
    /\ trail' = Append(trail, <<pass, 0>>)
    /\ IF Passes \ (Ended \cup {pass}) = {}
       THEN /\ output' = Serialize(document, Root)
            /\ iter' = Fail
            /\ pass' = "done"
       ELSE /\ pass' \in Passes \ (Ended \cup {pass})
            /\ iter' = Ok(Start(Root))
            /\ UNCHANGED output
    /\ UNCHANGED <<archive, document>>
    /\ UNCHANGED fetchVars

NextAnyOrder ==
    \/ EmbedStartAny
    \/ ReplaceImage
    \/ ReplaceCss
    \/ ReplaceScript
    \/ PassEnd

SpecAnyOrder == InitAnyOrder /\ [][NextAnyOrder]_vars

\* the body of the loop over the elements of one tag
LoopBody(ar, tree, n, name) ==
    IF name = "img" THEN [tree EXCEPT ![n].attrs = ImageBody(ar, tree[n])]
    ELSE IF name = "link"
    THEN IF CssData(ar, tree[n]).ok
         THEN ReplaceLink(tree, n, CssData(ar, tree[n]).val)
         ELSE tree
    ELSE ScriptBody(ar, tree, n)

\* one loop run to its end
RECURSIVE RunPass(_, _, _, _)
RunPass(ar, tree, st, name) ==
    LET sel == SelectNext(tree, st, name)
    IN  IF ~sel.found THEN tree
        ELSE RunPass(ar, LoopBody(ar, tree, sel.node, name), sel.state, name)

\* embed_resources() as written: images, then stylesheets, then scripts
embed_resources(ar) ==
    LET t0 == ParseDocument(ar.content)
        t1 == RunPass(ar, t0, Ok(Start(Root)), "img")
        t2 == RunPass(ar, t1, Ok(Start(Root)), "link")
        t3 == RunPass(ar, t2, Ok(Start(Root)), "script")
    IN  Serialize(t3, Root)

\* the loop iterations in the trail, without the marks of a loop's end
Visits == {i \in 1..Len(trail) : trail[i][2] # 0}

\* no node is visited by two loops
VisitsDisjoint ==
    \A i, j \in Visits : trail[i][2] = trail[j][2] => trail[i][1] = trail[j][1]

\* a loop iteration has just taken a node
Visiting == Len(trail') = Len(trail) + 1 /\ Last(trail')[2] # 0

\* a node is as it was parsed when a loop visits it
VisitedAsParsed ==
    Visiting =>
        /\ Last(trail')[2] <= Len(Original)
        /\ document[Last(trail')[2]] = Original[Last(trail')[2]]

\* a node that the running loop changes has been visited by no other loop
ChangesOwnNodes ==
    pass \in Passes =>
        \A n \in 1..Len(document) :
            document'[n] # document[n] =>
                \A i \in 1..Len(trail') :
                    trail'[i][2] = n => trail'[i][1] = pass

\* C12: whatever the order of the three loops, the result is the one of the
\* order images, stylesheets, scripts; no node is visited by two loops, a
\* node is as it was parsed when a loop visits it, and a node that a loop
\* changes has been visited by no other loop.
C12_PassesIndependent ==
    /\ [](VisitsDisjoint)
    /\ [](pass = "done" => output = embed_resources(archive))
    /\ [][VisitedAsParsed]_vars
    /\ [][ChangesOwnNodes]_vars

\* scripts first, stylesheets second, images last, and each loop has
\* rewritten an element
C12_Witness ==
    /\ pass = "done"
    /\ \E i, j, k \in 1..Len(trail) :
           /\ i < j /\ j < k
           /\ trail[i] = <<"script", 0>>
           /\ trail[j] = <<"link", 0>>
           /\ trail[k] = <<"img", 0>>
    /\ Len(OutNamed("style")) = 1
    /\ OutNamed("link") = <<>>
    /\ \E i \in 1..Len(OutNamed("img")) :
           AttrValue(OutNamed("img")[i].attrs, "src")[1] = "data:"
    /\ \E i \in 1..Len(OutNamed("script")) :
           Len(OutNamed("script")[i].children) = 2

====
